---- MODULE Spec2Model ----
(***************************************************************************)
(* Verification model of the design-pattern demos of the repository:       *)
(* the payment-processor factories, the sync.Once singletons, the command  *)
(* invoker with undo history and the observer subjects.                    *)
(*                                                                         *)
(* Every demo is an independent program, so every demo has its own         *)
(* specification (FactorySpec, SingletonSpec, ...) over its own variables; *)
(* the variables of the other demos stay at their initial values.          *)
(***************************************************************************)
EXTENDS Integers, Sequences, FiniteSets, TLC

VARIABLES
    \* factory demos
    fpkg,       \* which NewPaymentProcessor was called last: "none", "demo", "factory"
    fkey,       \* the key passed to the last call
    fres,       \* the (processor, error) pair the last call returned
    fheap,      \* number of processor values constructed so far
    fcalls,     \* number of factory calls made so far
    nkey,       \* the kind passed to the last NewNotifer call
    nres,       \* what the last NewNotifer call returned
    mainEnv,    \* PAYMENT_PROVIDER as main of package factory read it
    mainExit,   \* how that main ended: "notrun", "paid" or "panic"
    sent,       \* the last Send call on the notifier of nres: its message,
                \* what it returned, or that it panicked
    \* singleton (GetCounter / GetLogger / GetConfig)
    pc,         \* position of every goroutine inside the accessor
    mu,         \* holder of the Once's mutex, or NoHolder
    done,       \* the Once's done flag
    instance,   \* the package variable `instance` (a reference, or NilRef)
    objects,    \* number of instances constructed so far
    initRuns,   \* number of times the initializer body was entered
    got,        \* got[p]: the set of references returned to goroutine p so far
    last,       \* last[p]: the reference returned by p's last completed call
    ncalls,     \* accessor calls started so far, by all goroutines
    parked,     \* parked[p]: how p's last call went: "no" call yet, "fast" path,
                \* "slow" path, or parked in Lock, and then what the holder was doing
    \* the fields of the singleton objects (Counter.value, Logger.count,
    \* Config.AppName) and the calls that change them
    heap,       \* heap[r]: the fields of the object with reference r
    ipc,        \* ipc[p]: where goroutine p is in Increment: "idle", "store", "ret"
    reg,        \* reg[p]: the value p read in c.value++
    nincs,      \* Increment calls started so far
    rets,       \* the values returned by the completed Increment calls
    overlapped, \* some Increment call started while another was in progress
    lastName,   \* the name given to the last SetAppName call
    \* command invoker (RemoteControl)
    isOn,       \* isOn[l]: the field isOn of Light l
    commands,   \* RemoteControl.commands
    history,    \* RemoteControl.history
    nset,       \* number of SetCommand calls made so far
    crashed,    \* the program has panicked
    lastOp,     \* the last RemoteControl operation: its arguments, the state
                \* it started in and the command methods it invoked
    \* observer subjects (Publisher, EstacionMeteorologica, NotificationCenter)
    subject,    \* which subject type was constructed, or "none"
    subscribers,\* the subject's list; every entry carries the number of the
                \* Register call that appended it
    nregs,      \* number of Register calls made so far
    active,     \* active[o]: Register(o) calls not yet cancelled by an Unregister(o)
    status,     \* status[o]: the last of Register(o) / Unregister(o), or "none"
    obsOp,      \* the last subject operation: its arguments, the list it
                \* started with and the updates it delivered
    \* strategy contexts (ShoppingCart, ShippingContext, GreetingContext,
    \* PaymentService)
    ctx,        \* ctx[i]: the fields of context i, or NotBuilt
    lastSet,    \* lastSet[i]: the strategy last given to context i (cur) and
                \* the one given before it (prev)
    lastExec,   \* the last execute call: its context and arguments, the
                \* strategy held when it started, the invocations it made,
                \* what it printed and returned
    newRes,     \* what the last NewPaymentService call returned
    scrashed,   \* the program has panicked
    \* decorator chains (Coffee, Text, Sandwich, PaymentCard)
    dbase,      \* the base component of the chain: its capability (or "none")
                \* and, for a SimpleText, its Content
    chain,      \* the decorators wrapped around the base, innermost first
    other,      \* the decorators of a second chain around the same base
    dres,       \* the last operation called on the chain and its result
    \* car builder
    bref,       \* the reference NewCarBuilder returned, or NilRef
    builder,    \* the fields of the Car that reference points to
    cur,        \* the reference returned by the last call of the chain
    car,        \* what the last Build call returned
    given,      \* given[f]: the value passed to the last With call of field f
    snap,       \* the fields of the builder when Build was last called
    lastWith,   \* the field of the last With call, or "none"
    \* generics
    gres        \* the last call of Min or Max: its arguments and its result

factoryVars == <<fpkg, fkey, fres, fheap, fcalls, nkey, nres, mainEnv, mainExit,
                 sent>>
singletonVars == <<pc, mu, done, instance, objects, initRuns, got, last, ncalls, parked>>
objectVars == <<heap, ipc, reg, nincs, rets, overlapped, lastName>>
commandVars == <<isOn, commands, history, nset, crashed, lastOp>>
observerVars == <<subject, subscribers, nregs, active, status, obsOp>>
strategyVars == <<ctx, lastSet, lastExec, newRes, scrashed>>
decoratorVars == <<dbase, chain, other, dres>>
builderVars == <<bref, builder, cur, car, given, snap, lastWith>>
genericVars == <<gres>>
vars == <<factoryVars, singletonVars, objectVars, commandVars, observerVars,
          strategyVars, decoratorVars, builderVars, genericVars>>

\* What the operations of one demo leave alone: the state of the other demos.
notFactory ==
    <<singletonVars, commandVars, observerVars, strategyVars, decoratorVars,
      objectVars, builderVars, genericVars>>
notSingleton ==
    <<factoryVars, commandVars, observerVars, strategyVars, decoratorVars,
      objectVars, builderVars, genericVars>>
notCommand ==
    <<factoryVars, singletonVars, observerVars, strategyVars, decoratorVars,
      objectVars, builderVars, genericVars>>
notObserver ==
    <<factoryVars, singletonVars, commandVars, strategyVars, decoratorVars,
      objectVars, builderVars, genericVars>>
notStrategy ==
    <<factoryVars, singletonVars, commandVars, observerVars, decoratorVars,
      objectVars, builderVars, genericVars>>
notObject ==
    <<factoryVars, commandVars, observerVars, strategyVars, decoratorVars, builderVars, genericVars>>
notBuilder ==
    <<factoryVars, singletonVars, objectVars, commandVars, observerVars,
      strategyVars, decoratorVars, genericVars>>
notGeneric ==
    <<factoryVars, singletonVars, objectVars, commandVars, observerVars,
      strategyVars, decoratorVars, builderVars>>
notDecorator ==
    <<factoryVars, singletonVars, commandVars, observerVars, strategyVars,
      objectVars, builderVars, genericVars>>

(***************************************************************************)
(* Factory: NewPaymentProcessor                                            *)
(***************************************************************************)

\* Bound: number of factory calls in one behaviour.
MaxFactoryCalls == 4

\* The nil interface value.
Nil == "nil"

\* The nil error.
NilError == [isnil |-> TRUE, msg |-> ""]

\* fmt.Errorf(prefix + "%s", arg): a non-nil error whose message is the
\* prefix followed by the argument.
Errorf(prefix, arg) == [isnil |-> FALSE, msg |-> prefix \o arg]

\* Keys given to the factories: the enumerated ones, the empty string, and
\* keys that differ from an enumerated one in case or by surrounding text.
ProviderKeys ==
    {"paypal", "stripe", "crypto", "", "PayPal", "PAYPAL", "Stripe",
     "cryptO", "paypal ", "bitcoin"}

\* A faulty variant of the demo's factory: the comparison of "paypal" ignores case.
NewPaymentProcessorFolded(provider) ==
    CASE provider \in {"paypal", "PayPal", "PAYPAL"} ->
            [proc |-> "PayPalProcessor", err |-> NilError, made |-> 1]
      [] provider = "stripe" ->
            [proc |-> "StripeProcessor", err |-> NilError, made |-> 1]
      [] provider = "crypto" ->
            [proc |-> "CryptoProcessor", err |-> NilError, made |-> 1]
      [] OTHER ->
            [proc |-> Nil, err |-> Errorf("unsupported provider: ", provider),
             made |-> 0]

\* NewPaymentProcessor of the factory+strategy demo. `made` is the number of
\* processor values the taken branch constructs.
NewPaymentProcessor(provider) ==
    CASE provider = "paypal" ->
            [proc |-> "PayPalProcessor", err |-> NilError, made |-> 1]
      [] provider = "stripe" ->
            [proc |-> "StripeProcessor", err |-> NilError, made |-> 1]
      [] provider = "crypto" ->
            [proc |-> "CryptoProcessor", err |-> NilError, made |-> 1]
      [] OTHER ->
            [proc |-> Nil, err |-> Errorf("unsupported provider: ", provider),
             made |-> 0]

\* NewPaymentProcessor of package factory.
FactoryNewPaymentProcessor(provider) ==
    CASE provider = "paypal" ->
            [proc |-> "PayPalProcessor", err |-> NilError, made |-> 1]
      [] provider = "stripe" ->
            [proc |-> "StripeProcessor", err |-> NilError, made |-> 1]
      [] OTHER ->
            [proc |-> Nil,
             err |-> Errorf("unsupported payment provider: ", provider),
             made |-> 0]

FactoryInit ==
    /\ fpkg = "none"
    /\ fkey = ""
    /\ fres = [proc |-> Nil, err |-> NilError, made |-> 0]
    /\ fheap = 0
    /\ fcalls = 0
    /\ nkey = ""
    /\ nres = [notifier |-> Nil, err |-> NilError, called |-> FALSE]
    /\ mainEnv = ""
    /\ mainExit = "notrun"
    /\ sent = [called |-> FALSE, on |-> Nil, msg |-> "", ret |-> "",
               panicked |-> FALSE]

\* A caller of the demo's factory calls it with key k.
CallNewPaymentProcessor(k) ==
    /\ mainExit # "panic"
    /\ ~sent.panicked
    /\ fcalls < MaxFactoryCalls
    /\ fpkg' = "demo"
    /\ fkey' = k
    /\ fres' = NewPaymentProcessor(k)
    /\ fheap' = fheap + NewPaymentProcessor(k).made
    /\ fcalls' = fcalls + 1
    /\ UNCHANGED <<nkey, nres, mainEnv, mainExit, sent, notFactory>>

\* A caller of package factory's factory calls it with key k.
CallFactoryNewPaymentProcessor(k) ==
    /\ mainExit # "panic"
    /\ ~sent.panicked
    /\ fcalls < MaxFactoryCalls
    /\ fpkg' = "factory"
    /\ fkey' = k
    /\ fres' = FactoryNewPaymentProcessor(k)
    /\ fheap' = fheap + FactoryNewPaymentProcessor(k).made
    /\ fcalls' = fcalls + 1
    /\ UNCHANGED <<nkey, nres, mainEnv, mainExit, sent, notFactory>>

\* Kinds given to NewNotifer: the enumerated ones and others.
NotifierKinds == {"email", "sms", "", "Email", "push"}

\* NewNotifer. It has no error result: err is what a caller is told about
\* a failure, and that is nothing (nil) on every path.
NewNotifer(kind) ==
    CASE kind = "email" -> [notifier |-> "EmailNotifier", err |-> NilError]
      [] kind = "sms" -> [notifier |-> "SMSNotifier", err |-> NilError]
      [] OTHER -> [notifier |-> Nil, err |-> NilError]

\* A caller calls NewNotifer with kind k.
CallNewNotifer(k) ==
    /\ mainExit # "panic"
    /\ ~sent.panicked
    /\ nkey' = k
    /\ nres' = [notifier |-> NewNotifer(k).notifier, err |-> NewNotifer(k).err,
                called |-> TRUE]
    /\ UNCHANGED <<fpkg, fkey, fres, fheap, fcalls, mainEnv, mainExit, sent,
                   notFactory>>

\* Messages given to Send.
Messages == {"hola", "Hello, Factory!"}

\* EmailNotifier.Send and SMSNotifier.Send: a constant; the message is not
\* used.
Send(notifier, message) ==
    IF notifier = "EmailNotifier" THEN "send email" ELSE "send SMS"

\* A caller calls Send(message) on the notifier the last NewNotifer call
\* returned, as Main does; on a nil Notifier the call panics.
CallSend(message) ==
    /\ mainExit # "panic"
    /\ ~sent.panicked
    /\ nres.called
    /\ sent' = IF nres.notifier = Nil
               THEN [called |-> TRUE, on |-> Nil, msg |-> message, ret |-> "",
                     panicked |-> TRUE]
               ELSE [called |-> TRUE, on |-> nres.notifier, msg |-> message,
                     ret |-> Send(nres.notifier, message), panicked |-> FALSE]
    /\ UNCHANGED <<fpkg, fkey, fres, fheap, fcalls, nkey, nres, mainEnv, mainExit,
                   notFactory>>

\* main of package factory, with PAYMENT_PROVIDER = env ("" when it is not
\* set): the error of NewPaymentProcessor is discarded, and ProcessPayment
\* is called on the returned processor; on a nil processor that call is a
\* nil dereference and the program panics.
FactoryMain(env) ==
    /\ mainExit = "notrun"
    /\ ~sent.panicked
    /\ fcalls < MaxFactoryCalls
    /\ mainEnv' = env
    /\ fpkg' = "factory"
    /\ fkey' = env
    /\ fres' = FactoryNewPaymentProcessor(env)
    /\ fheap' = fheap + FactoryNewPaymentProcessor(env).made
    /\ fcalls' = fcalls + 1
    /\ mainExit' = IF FactoryNewPaymentProcessor(env).proc = Nil
                   THEN "panic" ELSE "paid"
    /\ UNCHANGED <<nkey, nres, sent, notFactory>>

(***************************************************************************)
(* Singleton: GetCounter (GetLogger and GetConfig are the same code)       *)
(***************************************************************************)

\* Bounds: number of goroutines, and accessor calls made by all of them.
NumProcs == 3
MaxCalls == 3

Procs == 1..NumProcs

\* The nil pointer; references to constructed objects are 1, 2, ...
NilRef == 0
NoHolder == 0

SingletonInit ==
    /\ pc = [p \in Procs |-> "idle"]
    /\ mu = NoHolder
    /\ done = 0
    /\ instance = NilRef
    /\ objects = 0
    /\ initRuns = 0
    /\ got = [p \in Procs |-> {}]
    /\ last = [p \in Procs |-> NilRef]
    /\ ncalls = 0
    /\ parked = [p \in Procs |-> "no"]

\* Goroutine p calls the accessor.
GetCounter(p) ==
    /\ pc[p] = "idle"
    /\ ipc[p] = "idle"
    /\ ncalls < MaxCalls
    /\ pc' = [pc EXCEPT ![p] = "do"]
    /\ ncalls' = ncalls + 1
    /\ UNCHANGED <<mu, done, instance, objects, initRuns, got, last, parked, notSingleton>>

\* A faulty variant of OnceDo: the classic unguarded lazy initialisation,
\* `if instance == nil { instance = &Counter{} }`, with no Once.
OnceDoUnguarded(p) ==
    /\ pc[p] = "do"
    /\ pc' = [pc EXCEPT ![p] = IF instance = NilRef THEN "init" ELSE "return"]
    /\ parked' = [parked EXCEPT ![p] = IF done = 0 THEN "slow" ELSE "fast"]
    /\ UNCHANGED <<mu, done, instance, objects, initRuns, got, last, ncalls, notSingleton>>

\* A faulty variant of OnceDo: a caller that finds the initialisation in progress
\* does not wait for it.
OnceDoNoWait(p) ==
    /\ pc[p] = "do"
    /\ pc' = [pc EXCEPT ![p] = IF done = 0 /\ mu = NoHolder THEN "lock" ELSE "return"]
    /\ parked' = [parked EXCEPT ![p] = IF done = 0 THEN "slow" ELSE "fast"]
    /\ UNCHANGED <<mu, done, instance, objects, initRuns, got, last, ncalls, notSingleton>>

\* Once.Do(f), fast path: an atomic load of done; when it is set the call
\* returns at once, otherwise it takes the slow path.
OnceDo(p) ==
    /\ pc[p] = "do"
    /\ pc' = [pc EXCEPT ![p] = IF done = 0 THEN "lock" ELSE "return"]
    /\ parked' = [parked EXCEPT ![p] = IF done = 0 THEN "slow" ELSE "fast"]
    /\ UNCHANGED <<mu, done, instance, objects, initRuns, got, last, ncalls, notSingleton>>

\* Slow path, m.Lock() while another goroutine holds the mutex: p is parked.
OncePark(p) ==
    /\ pc[p] = "lock"
    /\ mu # NoHolder
    /\ parked[p] = "slow"
    /\ parked' = [parked EXCEPT ![p] = pc[mu]]
    /\ UNCHANGED <<pc, mu, done, instance, objects, initRuns, got, last, ncalls, notSingleton>>

\* Slow path, m.Lock() succeeds.
OnceLock(p) ==
    /\ pc[p] = "lock"
    /\ mu = NoHolder
    /\ mu' = p
    /\ pc' = [pc EXCEPT ![p] = "check"]
    /\ UNCHANGED <<done, instance, objects, initRuns, got, last, ncalls, parked, notSingleton>>

\* Slow path, under the mutex: done is read again; f runs only when it is
\* still unset.
OnceCheck(p) ==
    /\ pc[p] = "check"
    /\ pc' = [pc EXCEPT ![p] = IF done = 0 THEN "init" ELSE "unlock"]
    /\ UNCHANGED <<mu, done, instance, objects, initRuns, got, last, ncalls, parked, notSingleton>>

\* The initializer body: instance = &Counter{}.
Initializer(p) ==
    /\ pc[p] = "init"
    /\ objects' = objects + 1
    /\ initRuns' = initRuns + 1
    /\ instance' = objects + 1
    /\ pc' = [pc EXCEPT ![p] = "store"]
    /\ UNCHANGED <<mu, done, got, last, ncalls, parked, notSingleton>>

\* The deferred done.Store(1), after f has returned.
OnceStore(p) ==
    /\ pc[p] = "store"
    /\ done' = 1
    /\ pc' = [pc EXCEPT ![p] = "unlock"]
    /\ UNCHANGED <<mu, instance, objects, initRuns, got, last, ncalls, parked, notSingleton>>

\* A faulty variant of OnceUnlock: the mutex is never released.
OnceNoUnlock(p) ==
    /\ pc[p] = "unlock"
    /\ pc' = [pc EXCEPT ![p] = "return"]
    /\ UNCHANGED <<mu, done, instance, objects, initRuns, got, last, ncalls, parked, notSingleton>>

\* The deferred m.Unlock().
OnceUnlock(p) ==
    /\ pc[p] = "unlock"
    /\ mu' = IF mu = p THEN NoHolder ELSE mu
    /\ pc' = [pc EXCEPT ![p] = "return"]
    /\ UNCHANGED <<done, instance, objects, initRuns, got, last, ncalls, parked, notSingleton>>

\* return instance
Return(p) ==
    /\ pc[p] = "return"
    /\ got' = [got EXCEPT ![p] = @ \cup {instance}]
    /\ last' = [last EXCEPT ![p] = instance]
    /\ pc' = [pc EXCEPT ![p] = "idle"]
    /\ UNCHANGED <<mu, done, instance, objects, initRuns, ncalls, parked, notSingleton>>

\* The steps of a call in progress by goroutine p.
Run(p) ==
    \/ OnceDo(p)
    \/ OncePark(p)
    \/ OnceLock(p)
    \/ OnceCheck(p)
    \/ Initializer(p)
    \/ OnceStore(p)
    \/ OnceUnlock(p)
    \/ Return(p)

(***************************************************************************)
(* Singleton objects: Counter.Increment (Logger.Log is the same code       *)
(* without the return), Config.SetAppName                                  *)
(***************************************************************************)

\* Bound: number of Increment calls made by all goroutines.
MaxIncrements == 2

\* The references a behaviour can construct: one per accessor call at most.
Refs == 1..MaxCalls

\* The goroutines that use the object they got from the accessor.
Users == {1, 2}

\* Names given to SetAppName.
AppNames == {"MyApp", "Other"}

\* &Counter{}, &Logger{}, &Config{}: every field has its zero value.
ZeroObject == [value |-> 0, appName |-> ""]

ObjectInit ==
    /\ heap = [r \in Refs |-> ZeroObject]
    /\ ipc = [p \in Procs |-> "idle"]
    /\ reg = [p \in Procs |-> 0]
    /\ nincs = 0
    /\ rets = <<>>
    /\ overlapped = FALSE
    /\ lastName = ""

\* c.SetAppName(name) through the reference goroutine p got last:
\* c.AppName = name.
SetAppName(p, name) ==
    /\ pc[p] = "idle"
    /\ ipc[p] = "idle"
    /\ last[p] # NilRef
    /\ heap' = [heap EXCEPT ![last[p]].appName = name]
    /\ lastName' = name
    /\ UNCHANGED <<ipc, reg, nincs, rets, overlapped, singletonVars, notObject>>

\* c.Increment() through the reference goroutine p got last; c.value++ is a
\* read and a write with no lock around them. This step is the read.
IncrementLoad(p) ==
    /\ pc[p] = "idle"
    /\ ipc[p] = "idle"
    /\ last[p] # NilRef
    /\ nincs < MaxIncrements
    /\ nincs' = nincs + 1
    /\ reg' = [reg EXCEPT ![p] = heap[last[p]].value]
    /\ ipc' = [ipc EXCEPT ![p] = "store"]
    /\ overlapped' = (overlapped \/ \E q \in Procs : q # p /\ ipc[q] # "idle")
    /\ UNCHANGED <<heap, rets, lastName, singletonVars, notObject>>

\* A faulty variant of IncrementStore: the method has a value receiver, so
\* the write goes to a copy of the object.
IncrementStoreOnCopy(p) ==
    /\ ipc[p] = "store"
    /\ ipc' = [ipc EXCEPT ![p] = "ret"]
    /\ UNCHANGED <<heap, reg, nincs, rets, overlapped, lastName, singletonVars,
                   notObject>>

\* The write of c.value++.
IncrementStore(p) ==
    /\ ipc[p] = "store"
    /\ heap' = [heap EXCEPT ![last[p]].value = reg[p] + 1]
    /\ ipc' = [ipc EXCEPT ![p] = "ret"]
    /\ UNCHANGED <<reg, nincs, rets, overlapped, lastName, singletonVars, notObject>>

\* return c.value: the field is read again.
IncrementReturn(p) ==
    /\ ipc[p] = "ret"
    /\ rets' = Append(rets, heap[last[p]].value)
    /\ ipc' = [ipc EXCEPT ![p] = "idle"]
    /\ UNCHANGED <<heap, reg, nincs, overlapped, lastName, singletonVars, notObject>>

(***************************************************************************)
(* Command invoker: RemoteControl, Light, LightOnCommand, LightOffCommand  *)
(***************************************************************************)

\* Bounds: lights, bound slots and history entries.
NumLights == 2
MaxCommands == 2
MaxHistory == 2

Lights == 1..NumLights

\* The command objects: a LightOnCommand and a LightOffCommand per Light.
Commands == [kind : {"LightOn", "LightOff"}, light : Lights]
NoCommand == [kind |-> "none", light |-> 0]

\* Indexes given to PressButton: every slot, one past the last, and -1.
PressIndexes == -1..MaxCommands

\* Light.TurnOn and Light.TurnOff on the receiver state s.
TurnOn(l, s) == [s EXCEPT ![l] = TRUE]
TurnOff(l, s) == [s EXCEPT ![l] = FALSE]

\* Execute of LightOnCommand / LightOffCommand.
Execute(c, s) ==
    IF c.kind = "LightOn" THEN TurnOn(c.light, s) ELSE TurnOff(c.light, s)

\* Undo of LightOnCommand / LightOffCommand.
Undo(c, s) ==
    IF c.kind = "LightOn" THEN TurnOff(c.light, s) ELSE TurnOn(c.light, s)

\* One invocation of a command method, as the invoker makes it.
Invocation(m, c) == [method |-> m, cmd |-> c]

\* What an operation starts from.
Before == [isOn |-> isOn, commands |-> commands, history |-> history]

CommandInit ==
    /\ isOn = [l \in Lights |-> FALSE]
    /\ commands = <<>>
    /\ history = <<>>
    /\ nset = 0
    /\ crashed = FALSE
    /\ lastOp = [op |-> "none", index |-> 0, cmd |-> NoCommand,
                 calls |-> <<>>, pre |-> [isOn |-> [l \in Lights |-> FALSE],
                                          commands |-> <<>>, history |-> <<>>]]

\* A faulty variant of SetCommand: a second binding replaces the first slot.
SetCommandRebinding(command) ==
    /\ ~crashed
    /\ Len(commands) < MaxCommands
    /\ commands' = IF commands = <<>> THEN <<command>>
                   ELSE [commands EXCEPT ![1] = command]
    /\ nset' = nset + 1
    /\ lastOp' = [op |-> "SetCommand", index |-> 0, cmd |-> command,
                  calls |-> <<>>, pre |-> Before]
    /\ UNCHANGED <<isOn, history, crashed, notCommand>>

\* RemoteControl.SetCommand
SetCommand(command) ==
    /\ ~crashed
    /\ Len(commands) < MaxCommands
    /\ commands' = Append(commands, command)
    /\ nset' = nset + 1
    /\ lastOp' = [op |-> "SetCommand", index |-> 0, cmd |-> command,
                  calls |-> <<>>, pre |-> Before]
    /\ UNCHANGED <<isOn, history, crashed, notCommand>>

\* RemoteControl.PressButton. The slice index of the code is 0-based; an
\* index below 0 passes the test index < len(rc.commands) and the slice
\* access panics.
PressButton(index) ==
    /\ ~crashed
    /\ (0 <= index /\ index < Len(commands)) => Len(history) < MaxHistory
    /\ IF index < Len(commands)
       THEN IF index < 0
            THEN /\ crashed' = TRUE
                 /\ lastOp' = [op |-> "PressButton", index |-> index,
                               cmd |-> NoCommand, calls |-> <<>>, pre |-> Before]
                 /\ UNCHANGED <<isOn, history>>
            ELSE /\ isOn' = Execute(commands[index + 1], isOn)
                 /\ history' = Append(history, commands[index + 1])
                 /\ lastOp' = [op |-> "PressButton", index |-> index,
                               cmd |-> commands[index + 1],
                               calls |-> <<Invocation("Execute", commands[index + 1])>>,
                               pre |-> Before]
                 /\ UNCHANGED crashed
       ELSE /\ lastOp' = [op |-> "PressButton", index |-> index,
                          cmd |-> NoCommand, calls |-> <<>>, pre |-> Before]
            /\ UNCHANGED <<isOn, history, crashed>>
    /\ UNCHANGED <<commands, nset, notCommand>>

\* A faulty variant of UndoLast: the oldest entry is undone and removed.
UndoOldest ==
    /\ ~crashed
    /\ IF Len(history) > 0
       THEN /\ isOn' = Undo(history[1], isOn)
            /\ history' = Tail(history)
            /\ lastOp' = [op |-> "UndoLast", index |-> 0, cmd |-> history[1],
                          calls |-> <<Invocation("Undo", history[1])>>,
                          pre |-> Before]
       ELSE /\ lastOp' = [op |-> "UndoLast", index |-> 0, cmd |-> NoCommand,
                          calls |-> <<>>, pre |-> Before]
            /\ UNCHANGED <<isOn, history>>
    /\ UNCHANGED <<commands, nset, crashed, notCommand>>

\* A faulty variant of UndoLast: the test of the history's length is missing, and
\* history[len(history)-1] panics on an empty history.
UndoLastUnguarded ==
    /\ ~crashed
    /\ IF Len(history) > 0
       THEN /\ isOn' = Undo(history[Len(history)], isOn)
            /\ history' = SubSeq(history, 1, Len(history) - 1)
            /\ lastOp' = [op |-> "UndoLast", index |-> 0,
                          cmd |-> history[Len(history)],
                          calls |-> <<Invocation("Undo", history[Len(history)])>>,
                          pre |-> Before]
            /\ UNCHANGED crashed
       ELSE /\ crashed' = TRUE
            /\ lastOp' = [op |-> "UndoLast", index |-> 0, cmd |-> NoCommand,
                          calls |-> <<>>, pre |-> Before]
            /\ UNCHANGED <<isOn, history>>
    /\ UNCHANGED <<commands, nset, notCommand>>

\* RemoteControl.UndoLast
UndoLast ==
    /\ ~crashed
    /\ IF Len(history) > 0
       THEN /\ isOn' = Undo(history[Len(history)], isOn)
            /\ history' = SubSeq(history, 1, Len(history) - 1)
            /\ lastOp' = [op |-> "UndoLast", index |-> 0,
                          cmd |-> history[Len(history)],
                          calls |-> <<Invocation("Undo", history[Len(history)])>>,
                          pre |-> Before]
       ELSE /\ lastOp' = [op |-> "UndoLast", index |-> 0, cmd |-> NoCommand,
                          calls |-> <<>>, pre |-> Before]
            /\ UNCHANGED <<isOn, history>>
    /\ UNCHANGED <<commands, nset, crashed, notCommand>>

(***************************************************************************)
(* Observer subjects: Publisher (Register, Unregister, Notify),            *)
(* EstacionMeteorologica (Registrar, Eliminar, Notificar) and              *)
(* NotificationCenter (Register, NotifyAll) are the same list code.        *)
(***************************************************************************)

\* Bound: number of Register calls in one behaviour.
MaxRegisters == 4

SubjectTypes == {"Publisher", "EstacionMeteorologica", "NotificationCenter"}

\* The observer objects (pointers), and the payloads given to Notify.
Observers == {"emailSub", "smsSub", "otherSub"}
Payloads == {"Observer Pattern in Go", "Another Article"}
NoObserver == "nil"

\* What one call of an observer's Update receives.
Update(entry, e) == [obs |-> entry.obs, ticket |-> entry.ticket, payload |-> e]

\* The loop of Notify over the list, front to back.
RECURSIVE Deliver(_, _)
Deliver(list, e) ==
    IF list = <<>> THEN <<>>
    ELSE <<Update(Head(list), e)>> \o Deliver(Tail(list), e)

\* The index i at which the loop of Unregister finds s == sub, or 0.
FirstMatch(list, sub) ==
    IF \E i \in 1..Len(list) : list[i].obs = sub
    THEN CHOOSE i \in 1..Len(list) :
            /\ list[i].obs = sub
            /\ \A j \in 1..(i - 1) : list[j].obs # sub
    ELSE 0

\* append(list[:i], list[i+1:]...), for the 1-based index i.
RemoveAt(list, i) == SubSeq(list, 1, i - 1) \o SubSeq(list, i + 1, Len(list))

ObserverInit ==
    /\ subject = "none"
    /\ subscribers = <<>>
    /\ nregs = 0
    /\ active = [o \in Observers |-> 0]
    /\ status = [o \in Observers |-> "none"]
    /\ obsOp = [op |-> "none", obs |-> NoObserver, payload |-> "",
                delivered |-> <<>>, pre |-> <<>>]

\* publisher := &Publisher{} (estacion := ..., center := ...)
NewSubject(t) ==
    /\ subject = "none"
    /\ subject' = t
    /\ UNCHANGED <<subscribers, nregs, active, status, obsOp, notObserver>>

\* A faulty variant of Register: an observer already in the list is not
\* appended again.
RegisterUnique(sub) ==
    /\ subject # "none"
    /\ nregs < MaxRegisters
    /\ subscribers' =
          IF FirstMatch(subscribers, sub) # 0 THEN subscribers
          ELSE Append(subscribers, [obs |-> sub, ticket |-> nregs + 1])
    /\ nregs' = nregs + 1
    /\ active' = [active EXCEPT ![sub] = @ + 1]
    /\ status' = [status EXCEPT ![sub] = "registered"]
    /\ obsOp' = [op |-> "Register", obs |-> sub, payload |-> "",
                 delivered |-> <<>>, pre |-> subscribers]
    /\ UNCHANGED <<subject, notObserver>>

\* Publisher.Register, EstacionMeteorologica.Registrar,
\* NotificationCenter.Register
Register(sub) ==
    /\ subject # "none"
    /\ nregs < MaxRegisters
    /\ subscribers' = Append(subscribers, [obs |-> sub, ticket |-> nregs + 1])
    /\ nregs' = nregs + 1
    /\ active' = [active EXCEPT ![sub] = @ + 1]
    /\ status' = [status EXCEPT ![sub] = "registered"]
    /\ obsOp' = [op |-> "Register", obs |-> sub, payload |-> "",
                 delivered |-> <<>>, pre |-> subscribers]
    /\ UNCHANGED <<subject, notObserver>>

\* A faulty variant of Unregister: every entry equal to sub is removed.
UnregisterEvery(sub) ==
    /\ subject \in {"Publisher", "EstacionMeteorologica"}
    /\ subscribers' = SelectSeq(subscribers, LAMBDA s : s.obs # sub)
    /\ active' = [active EXCEPT ![sub] = IF @ > 0 THEN @ - 1 ELSE 0]
    /\ status' = [status EXCEPT ![sub] = "unregistered"]
    /\ obsOp' = [op |-> "Unregister", obs |-> sub, payload |-> "",
                 delivered |-> <<>>, pre |-> subscribers]
    /\ UNCHANGED <<subject, nregs, notObserver>>

\* A faulty variant of Unregister: the found entry is overwritten by the last one
\* and the list is cut by one.
UnregisterSwapLast(sub) ==
    /\ subject \in {"Publisher", "EstacionMeteorologica"}
    /\ subscribers' =
          IF FirstMatch(subscribers, sub) = 0 THEN subscribers
          ELSE SubSeq([subscribers EXCEPT ![FirstMatch(subscribers, sub)] =
                          subscribers[Len(subscribers)]],
                      1, Len(subscribers) - 1)
    /\ active' = [active EXCEPT ![sub] = IF @ > 0 THEN @ - 1 ELSE 0]
    /\ status' = [status EXCEPT ![sub] = "unregistered"]
    /\ obsOp' = [op |-> "Unregister", obs |-> sub, payload |-> "",
                 delivered |-> <<>>, pre |-> subscribers]
    /\ UNCHANGED <<subject, nregs, notObserver>>

\* A faulty variant of Unregister: the last entry equal to sub is removed.
UnregisterLastMatch(sub) ==
    /\ subject \in {"Publisher", "EstacionMeteorologica"}
    /\ subscribers' =
          IF FirstMatch(subscribers, sub) = 0 THEN subscribers
          ELSE RemoveAt(subscribers,
                        CHOOSE i \in 1..Len(subscribers) :
                            /\ subscribers[i].obs = sub
                            /\ \A j \in (i + 1)..Len(subscribers) :
                                  subscribers[j].obs # sub)
    /\ active' = [active EXCEPT ![sub] = IF @ > 0 THEN @ - 1 ELSE 0]
    /\ status' = [status EXCEPT ![sub] = "unregistered"]
    /\ obsOp' = [op |-> "Unregister", obs |-> sub, payload |-> "",
                 delivered |-> <<>>, pre |-> subscribers]
    /\ UNCHANGED <<subject, nregs, notObserver>>

\* Publisher.Unregister, EstacionMeteorologica.Eliminar
Unregister(sub) ==
    /\ subject \in {"Publisher", "EstacionMeteorologica"}
    /\ subscribers' =
          IF FirstMatch(subscribers, sub) = 0 THEN subscribers
          ELSE RemoveAt(subscribers, FirstMatch(subscribers, sub))
    /\ active' = [active EXCEPT ![sub] = IF @ > 0 THEN @ - 1 ELSE 0]
    /\ status' = [status EXCEPT ![sub] = "unregistered"]
    /\ obsOp' = [op |-> "Unregister", obs |-> sub, payload |-> "",
                 delivered |-> <<>>, pre |-> subscribers]
    /\ UNCHANGED <<subject, nregs, notObserver>>

\* Publisher.Notify, EstacionMeteorologica.Notificar,
\* NotificationCenter.NotifyAll
Notify(e) ==
    /\ subject # "none"
    /\ obsOp' = [op |-> "Notify", obs |-> NoObserver, payload |-> e,
                 delivered |-> Deliver(subscribers, e), pre |-> subscribers]
    /\ UNCHANGED <<subject, subscribers, nregs, active, status, notObserver>>

(***************************************************************************)
(* Strategy contexts: ShoppingCart, ShippingContext, GreetingContext,      *)
(* PaymentService                                                          *)
(***************************************************************************)

\* The context variables of a program (cart, shipping, greeter; service1,
\* service2).
Instances == {"c1", "c2"}

\* The strategy types of each context type.
Strategies(kind) ==
    CASE kind = "ShoppingCart" -> {"CreditCard", "PayPal"}
      [] kind = "ShippingContext" ->
            {"StandardShipping", "ExpressShipping", "OvernightShipping"}
      [] kind = "GreetingContext" ->
            {"FormalGreeting", "CasualGreeting", "FriendlyGreeting"}
      [] kind = "PaymentService" ->
            {"StandardPricing", "PremiumPricing", "DiscountPricing"}

\* Amounts, in cents: the float64 amounts of the demos are multiples of a
\* dollar, for which the three pricing factors are exact in cents.
Amounts == {2500, 10000}
Items == {"Laptop"}
Distances == {100, 250}

\* Providers given to NewPaymentService.
ServiceProviders == {"paypal", "stripe", "Stripe", ""}

\* A context variable that holds no context yet.
NotBuilt == [kind |-> "none", strategy |-> Nil, processor |-> Nil]

\* No execute call yet.
NoExec ==
    [inst |-> "none", op |-> "none", args |-> <<>>, held |-> Nil,
     calls |-> <<>>, out |-> <<>>, ret |-> NilError, panicked |-> FALSE]

\* CreditCard.Pay and PayPal.Pay: the line printed.
Pay(s, amount) ==
    IF s = "CreditCard" THEN <<"Paid using Credit Card", amount>>
    ELSE <<"Paid using PayPal", amount>>

\* StandardShipping.Ship, ExpressShipping.Ship, OvernightShipping.Ship: the
\* line printed; neither argument is used.
ShipLine(s, item, distance) ==
    CASE s = "StandardShipping" -> <<"Standard: Standard delivery in 5-7 days">>
      [] s = "ExpressShipping" -> <<"Express: Express delivery in 2-3 days">>
      [] s = "OvernightShipping" -> <<"Overnight: Overnight delivery">>

\* StandardPricing, PremiumPricing, DiscountPricing: amount * 1.02, * 1.05,
\* * 0.98.
CalculatePrice(s, amount) ==
    CASE s = "StandardPricing" -> (amount * 102) \div 100
      [] s = "PremiumPricing" -> (amount * 105) \div 100
      [] s = "DiscountPricing" -> (amount * 98) \div 100

\* PayPalProcessor, StripeProcessor, CryptoProcessor: ProcessPayment prints
\* a line and returns a nil error.
ProcessorPayment(p, amount) ==
    [line |-> CASE p = "PayPalProcessor" -> <<"[PayPal] Processing", amount>>
                [] p = "StripeProcessor" -> <<"[Stripe] Processing", amount>>
                [] p = "CryptoProcessor" -> <<"[Crypto] Processing", amount>>,
     err |-> NilError]

\* One invocation made by an execute call.
Call(role, on, op, args) == [role |-> role, on |-> on, op |-> op, args |-> args]

\* One program builds contexts of one type.
SameDemo(kind) == \A j \in Instances : ctx[j].kind \in {"none", kind}

StrategyInit ==
    /\ ctx = [i \in Instances |-> NotBuilt]
    /\ lastSet = [i \in Instances |-> [cur |-> Nil, prev |-> Nil]]
    /\ lastExec = NoExec
    /\ newRes = [called |-> FALSE, provider |-> "", given |-> Nil, lookups |-> 0,
                 service |-> Nil, err |-> NilError]
    /\ scrashed = FALSE

\* cart := &ShoppingCart{}: the field Payment has its zero value, nil.
NewShoppingCart(i) ==
    /\ ~scrashed
    /\ ctx[i] = NotBuilt
    /\ SameDemo("ShoppingCart")
    /\ ctx' = [ctx EXCEPT ![i] = [kind |-> "ShoppingCart", strategy |-> Nil,
                                  processor |-> Nil]]
    /\ UNCHANGED <<lastSet, lastExec, newRes, scrashed, notStrategy>>

\* shipping := &ShippingContext{}: the field Strategy is nil.
NewShippingContext(i) ==
    /\ ~scrashed
    /\ ctx[i] = NotBuilt
    /\ SameDemo("ShippingContext")
    /\ ctx' = [ctx EXCEPT ![i] = [kind |-> "ShippingContext", strategy |-> Nil,
                                  processor |-> Nil]]
    /\ UNCHANGED <<lastSet, lastExec, newRes, scrashed, notStrategy>>

\* greeter := &GreetingContext{}: the field Strategy is nil.
NewGreetingContext(i) ==
    /\ ~scrashed
    /\ ctx[i] = NotBuilt
    /\ SameDemo("GreetingContext")
    /\ ctx' = [ctx EXCEPT ![i] = [kind |-> "GreetingContext", strategy |-> Nil,
                                  processor |-> Nil]]
    /\ UNCHANGED <<lastSet, lastExec, newRes, scrashed, notStrategy>>

\* A faulty variant of NewPaymentService: the error of the factory is
\* dropped and a service without processor is returned.
NewPaymentServiceIgnoringError(i, provider, pricingStrategy) ==
    /\ ~scrashed
    /\ ctx[i] = NotBuilt
    /\ SameDemo("PaymentService")
    /\ ctx' = [ctx EXCEPT ![i] = [kind |-> "PaymentService",
                                  strategy |-> pricingStrategy,
                                  processor |-> NewPaymentProcessor(provider).proc]]
    /\ lastSet' = [lastSet EXCEPT ![i] = [cur |-> pricingStrategy, prev |-> Nil]]
    /\ newRes' = [called |-> TRUE, provider |-> provider,
                  given |-> pricingStrategy, lookups |-> 1,
                  service |-> i, err |-> NilError]
    /\ UNCHANGED <<lastExec, scrashed, notStrategy>>

\* i, err := NewPaymentService(provider, pricingStrategy). The strategy is
\* stored as given, nil included; the factory is called once.
NewPaymentService(i, provider, pricingStrategy) ==
    /\ ~scrashed
    /\ ctx[i] = NotBuilt
    /\ SameDemo("PaymentService")
    /\ LET r == NewPaymentProcessor(provider)
       IN  IF ~r.err.isnil
           THEN /\ newRes' = [called |-> TRUE, provider |-> provider,
                              given |-> pricingStrategy, lookups |-> 1,
                              service |-> Nil, err |-> r.err]
                /\ UNCHANGED <<ctx, lastSet>>
           ELSE /\ ctx' = [ctx EXCEPT ![i] = [kind |-> "PaymentService",
                                             strategy |-> pricingStrategy,
                                             processor |-> r.proc]]
                /\ lastSet' = [lastSet EXCEPT ![i] = [cur |-> pricingStrategy,
                                                     prev |-> Nil]]
                /\ newRes' = [called |-> TRUE, provider |-> provider,
                              given |-> pricingStrategy, lookups |-> 1,
                              service |-> i, err |-> NilError]
    /\ UNCHANGED <<lastExec, scrashed, notStrategy>>

\* cart.Payment = s, shipping.Strategy = s, greeter.Strategy = s: the
\* assignments of main to the exported strategy field.
AssignStrategy(i, s) ==
    /\ ~scrashed
    /\ ctx[i].kind \in {"ShoppingCart", "ShippingContext", "GreetingContext"}
    /\ s \in Strategies(ctx[i].kind) \cup {Nil}
    /\ ctx' = [ctx EXCEPT ![i].strategy = s]
    /\ lastSet' = [lastSet EXCEPT ![i] = [cur |-> s, prev |-> lastSet[i].cur]]
    /\ UNCHANGED <<lastExec, newRes, scrashed, notStrategy>>

\* A faulty variant of SetPricingStrategy: the receiver is a copy of the
\* service, so the service keeps its strategy.
SetPricingStrategyOnCopy(i, s) ==
    /\ ~scrashed
    /\ ctx[i].kind = "PaymentService"
    /\ s \in Strategies("PaymentService") \cup {Nil}
    /\ lastSet' = [lastSet EXCEPT ![i] = [cur |-> s, prev |-> lastSet[i].cur]]
    /\ UNCHANGED <<ctx, lastExec, newRes, scrashed, notStrategy>>

\* A faulty variant of SetPricingStrategy: the strategy is kept in one place
\* for all services, so that every service gets it.
SetPricingStrategyEverywhere(i, s) ==
    /\ ~scrashed
    /\ ctx[i].kind = "PaymentService"
    /\ s \in Strategies("PaymentService") \cup {Nil}
    /\ ctx' = [j \in Instances |->
                 IF ctx[j].kind = "PaymentService"
                 THEN [ctx[j] EXCEPT !.strategy = s] ELSE ctx[j]]
    /\ lastSet' = [lastSet EXCEPT ![i] = [cur |-> s, prev |-> lastSet[i].cur]]
    /\ UNCHANGED <<newRes, lastExec, scrashed, notStrategy>>

\* ps.SetPricingStrategy(s): ps.strategy = s, with no validation.
SetPricingStrategy(i, s) ==
    /\ ~scrashed
    /\ ctx[i].kind = "PaymentService"
    /\ s \in Strategies("PaymentService") \cup {Nil}
    /\ ctx' = [ctx EXCEPT ![i].strategy = s]
    /\ lastSet' = [lastSet EXCEPT ![i] = [cur |-> s, prev |-> lastSet[i].cur]]
    /\ UNCHANGED <<newRes, lastExec, scrashed, notStrategy>>

\* An execute call that dereferences a nil strategy: the program panics.
NilStrategyPanic(i, op, args) ==
    /\ lastExec' = [inst |-> i, op |-> op, args |-> args, held |-> Nil,
                    calls |-> <<>>, out |-> <<>>, ret |-> NilError,
                    panicked |-> TRUE]
    /\ scrashed' = TRUE

\* s.Checkout(amount): s.Payment.Pay(amount).
Checkout(i, amount) ==
    /\ ~scrashed
    /\ ctx[i].kind = "ShoppingCart"
    /\ IF ctx[i].strategy = Nil
       THEN NilStrategyPanic(i, "Checkout", <<amount>>)
       ELSE /\ lastExec' =
                  [inst |-> i, op |-> "Checkout", args |-> <<amount>>,
                   held |-> ctx[i].strategy,
                   calls |-> <<Call("strategy", ctx[i].strategy, "Pay", <<amount>>)>>,
                   out |-> <<Pay(ctx[i].strategy, amount)>>,
                   ret |-> NilError, panicked |-> FALSE]
            /\ UNCHANGED scrashed
    /\ UNCHANGED <<ctx, lastSet, newRes, notStrategy>>

\* s.Ship(item, distance): s.Strategy.Ship(item, distance).
Ship(i, item, distance) ==
    /\ ~scrashed
    /\ ctx[i].kind = "ShippingContext"
    /\ IF ctx[i].strategy = Nil
       THEN NilStrategyPanic(i, "Ship", <<item, distance>>)
       ELSE /\ lastExec' =
                  [inst |-> i, op |-> "Ship", args |-> <<item, distance>>,
                   held |-> ctx[i].strategy,
                   calls |-> <<Call("strategy", ctx[i].strategy, "Ship",
                                    <<item, distance>>)>>,
                   out |-> <<ShipLine(ctx[i].strategy, item, distance)>>,
                   ret |-> NilError, panicked |-> FALSE]
            /\ UNCHANGED scrashed
    /\ UNCHANGED <<ctx, lastSet, newRes, notStrategy>>

\* g.Greet(): the body is empty; the strategy is not touched, nil or not.
Greet(i) ==
    /\ ~scrashed
    /\ ctx[i].kind = "GreetingContext"
    /\ lastExec' = [inst |-> i, op |-> "Greet", args |-> <<>>,
                    held |-> ctx[i].strategy, calls |-> <<>>, out |-> <<>>,
                    ret |-> NilError, panicked |-> FALSE]
    /\ UNCHANGED <<ctx, lastSet, newRes, scrashed, notStrategy>>

\* ps.ProcessPayment(amount): finalAmount := ps.strategy.CalculatePrice(amount),
\* a line with both amounts, then return ps.processor.ProcessPayment(finalAmount).
ProcessPayment(i, amount) ==
    /\ ~scrashed
    /\ ctx[i].kind = "PaymentService"
    /\ IF ctx[i].strategy = Nil
       THEN NilStrategyPanic(i, "ProcessPayment", <<amount>>)
       ELSE LET finalAmount == CalculatePrice(ctx[i].strategy, amount)
                paid == ProcessorPayment(ctx[i].processor, finalAmount)
            IN  /\ lastExec' =
                      [inst |-> i, op |-> "ProcessPayment", args |-> <<amount>>,
                       held |-> ctx[i].strategy,
                       calls |-> <<Call("strategy", ctx[i].strategy,
                                        "CalculatePrice", <<amount>>),
                                   Call("processor", ctx[i].processor,
                                        "ProcessPayment", <<finalAmount>>)>>,
                       out |-> <<<<"Original, Final", amount, finalAmount>>,
                                 paid.line>>,
                       ret |-> paid.err, panicked |-> FALSE]
                /\ UNCHANGED scrashed
    /\ UNCHANGED <<ctx, lastSet, newRes, notStrategy>>

(***************************************************************************)
(* Decorator chains: Coffee, Text, Sandwich, PaymentCard                   *)
(***************************************************************************)

\* Bound: number of decorators wrapped around one base component.
MaxChain == 3

\* The base components: SimpleCoffee, SimpleText with its Content,
\* BasicSandwich, BasiCard.
Bases ==
    {[type |-> "Coffee", content |-> ""], [type |-> "Sandwich", content |-> ""],
     [type |-> "PaymentCard", content |-> ""]}
    \cup {[type |-> "Text", content |-> t] : t \in {"Hello World", "Hi"}}

\* The decorator types of each capability.
Decorators(type) ==
    CASE type = "Coffee" -> {"Milk", "Sugar"}
      [] type = "Text" -> {"BoldDecorator", "ItalicDecorator", "UnderlineDecorator"}
      [] type = "Sandwich" -> {"Lettuce", "Tomato"}
      [] type = "PaymentCard" -> {"Rewards", "CardDecorator"}

\* A component is its chain of decorators c, innermost first, around the
\* base: Outer(c) is the decorator called, Inner(c) the component in its
\* embedded field.
Outer(c) == c[Len(c)]
Inner(c) == SubSeq(c, 1, Len(c) - 1)

\* The result of a method call: the value returned and the levels of the
\* chain whose method ran, in call order (0 is the base).
Answer(val, level, inner) == [val |-> val, visits |-> <<level>> \o inner]

\* Cost(): SimpleCoffee 5, Milk inner + 2, Sugar inner + 1.
RECURSIVE Cost(_)
Cost(c) ==
    IF c = <<>> THEN Answer(5, 0, <<>>)
    ELSE CASE Outer(c) = "Milk" ->
                Answer(Cost(Inner(c)).val + 2, Len(c), Cost(Inner(c)).visits)
           [] Outer(c) = "Sugar" ->
                Answer(Cost(Inner(c)).val + 1, Len(c), Cost(Inner(c)).visits)

\* A faulty variant of Ingredients: a decorator puts its own text before
\* the inner result.
RECURSIVE IngredientsPrepending(_)
IngredientsPrepending(c) ==
    IF c = <<>> THEN Answer("Coffee", 0, <<>>)
    ELSE Answer(Outer(c) \o ", " \o IngredientsPrepending(Inner(c)).val, Len(c),
                IngredientsPrepending(Inner(c)).visits)

\* Ingredients(): SimpleCoffee "Coffee", Milk inner + ", Milk", Sugar
\* inner + ", Sugar".
RECURSIVE Ingredients(_)
Ingredients(c) ==
    IF c = <<>> THEN Answer("Coffee", 0, <<>>)
    ELSE CASE Outer(c) = "Milk" ->
                Answer(Ingredients(Inner(c)).val \o ", Milk", Len(c),
                       Ingredients(Inner(c)).visits)
           [] Outer(c) = "Sugar" ->
                Answer(Ingredients(Inner(c)).val \o ", Sugar", Len(c),
                       Ingredients(Inner(c)).visits)

\* Display(): SimpleText its Content; Bold, Italic and Underline put "**",
\* "*", "__" around the inner result.
RECURSIVE Display(_, _)
Display(content, c) ==
    IF c = <<>> THEN Answer(content, 0, <<>>)
    ELSE CASE Outer(c) = "BoldDecorator" ->
                Answer("**" \o Display(content, Inner(c)).val \o "**", Len(c),
                       Display(content, Inner(c)).visits)
           [] Outer(c) = "ItalicDecorator" ->
                Answer("*" \o Display(content, Inner(c)).val \o "*", Len(c),
                       Display(content, Inner(c)).visits)
           [] Outer(c) = "UnderlineDecorator" ->
                Answer("__" \o Display(content, Inner(c)).val \o "__", Len(c),
                       Display(content, Inner(c)).visits)

\* GetDescription(): BasicSandwich "Bread", Lettuce inner + ", Lettuce",
\* Tomato inner + ", Tomato".
RECURSIVE GetDescription(_)
GetDescription(c) ==
    IF c = <<>> THEN Answer("Bread", 0, <<>>)
    ELSE CASE Outer(c) = "Lettuce" ->
                Answer(GetDescription(Inner(c)).val \o ", Lettuce", Len(c),
                       GetDescription(Inner(c)).visits)
           [] Outer(c) = "Tomato" ->
                Answer(GetDescription(Inner(c)).val \o ", Tomato", Len(c),
                       GetDescription(Inner(c)).visits)

\* GetAnnualFee(): BasiCard 0; Rewards and CardDecorator return 50 and do
\* not call the embedded card.
GetAnnualFee(c) ==
    IF c = <<>> THEN Answer(0, 0, <<>>)
    ELSE CASE Outer(c) = "Rewards" -> Answer(50, Len(c), <<>>)
           [] Outer(c) = "CardDecorator" -> Answer(50, Len(c), <<>>)

\* GetFeatures(): BasiCard, Rewards and CardDecorator all return the same
\* constant; the decorators do not call the embedded card.
GetFeatures(c) ==
    IF c = <<>> THEN Answer("Features: Basic Payment", 0, <<>>)
    ELSE CASE Outer(c) = "Rewards" -> Answer("Features: Basic Payment", Len(c), <<>>)
           [] Outer(c) = "CardDecorator" ->
                Answer("Features: Basic Payment", Len(c), <<>>)

\* The component n levels up from the base: the value the variable of main
\* had after n wrappings.
Component(n) == SubSeq(chain, 1, n)

DecoratorInit ==
    /\ dbase = [type |-> "none", content |-> ""]
    /\ chain = <<>>
    /\ other = <<>>
    /\ dres = [op |-> "none", on |-> 0, num |-> 0, str |-> "", visits |-> <<>>]

\* var c Coffee = &SimpleCoffee{} (or a SimpleText, BasicSandwich, BasiCard).
NewComponent(b) ==
    /\ dbase.type = "none"
    /\ dbase' = b
    /\ UNCHANGED <<chain, other, dres, notDecorator>>

\* A faulty variant of Wrap: the decorator is put next to the base, inside
\* the decorators already there, which changes the components they wrap.
WrapInnermost(d) ==
    /\ dbase.type # "none"
    /\ d \in Decorators(dbase.type)
    /\ Len(chain) < MaxChain
    /\ chain' = <<d>> \o chain
    /\ UNCHANGED <<dbase, other, dres, notDecorator>>

\* c = &Milk{CoffeeDecorator{c}}: a decorator of type d around the chain.
Wrap(d) ==
    /\ dbase.type # "none"
    /\ d \in Decorators(dbase.type)
    /\ Len(chain) < MaxChain
    /\ chain' = Append(chain, d)
    /\ UNCHANGED <<dbase, other, dres, notDecorator>>

\* c2 = &Sugar{CoffeeDecorator{base}}: a second chain, of one decorator of
\* type d, around the same base component.
WrapOther(d) ==
    /\ dbase.type # "none"
    /\ d \in Decorators(dbase.type)
    /\ other = <<>>
    /\ other' = Append(other, d)
    /\ UNCHANGED <<dbase, chain, dres, notDecorator>>

\* Cost() is called on the component n levels up from the base.
CallCost(n) ==
    /\ dbase.type = "Coffee"
    /\ n \in 0..Len(chain)
    /\ dres' = [op |-> "Cost", on |-> n, num |-> Cost(Component(n)).val,
                str |-> "", visits |-> Cost(Component(n)).visits]
    /\ UNCHANGED <<dbase, chain, other, notDecorator>>

CallIngredients(n) ==
    /\ dbase.type = "Coffee"
    /\ n \in 0..Len(chain)
    /\ dres' = [op |-> "Ingredients", on |-> n, num |-> 0,
                str |-> Ingredients(Component(n)).val,
                visits |-> Ingredients(Component(n)).visits]
    /\ UNCHANGED <<dbase, chain, other, notDecorator>>

CallDisplay(n) ==
    /\ dbase.type = "Text"
    /\ n \in 0..Len(chain)
    /\ dres' = [op |-> "Display", on |-> n, num |-> 0,
                str |-> Display(dbase.content, Component(n)).val,
                visits |-> Display(dbase.content, Component(n)).visits]
    /\ UNCHANGED <<dbase, chain, other, notDecorator>>

CallGetDescription(n) ==
    /\ dbase.type = "Sandwich"
    /\ n \in 0..Len(chain)
    /\ dres' = [op |-> "GetDescription", on |-> n, num |-> 0,
                str |-> GetDescription(Component(n)).val,
                visits |-> GetDescription(Component(n)).visits]
    /\ UNCHANGED <<dbase, chain, other, notDecorator>>

CallGetAnnualFee(n) ==
    /\ dbase.type = "PaymentCard"
    /\ n \in 0..Len(chain)
    /\ dres' = [op |-> "GetAnnualFee", on |-> n,
                num |-> GetAnnualFee(Component(n)).val, str |-> "",
                visits |-> GetAnnualFee(Component(n)).visits]
    /\ UNCHANGED <<dbase, chain, other, notDecorator>>

CallGetFeatures(n) ==
    /\ dbase.type = "PaymentCard"
    /\ n \in 0..Len(chain)
    /\ dres' = [op |-> "GetFeatures", on |-> n, num |-> 0,
                str |-> GetFeatures(Component(n)).val,
                visits |-> GetFeatures(Component(n)).visits]
    /\ UNCHANGED <<dbase, chain, other, notDecorator>>

(***************************************************************************)
(* Car builder: NewCarBuilder, With*, Build                                *)
(***************************************************************************)

\* The fields of Car.
Fields == {"Brand", "Model", "Year", "Color", "Electric"}

\* Values given to the With methods.
Brands == {"Ford", "Tesla"}
Models == {"Mustang"}
Years == {2024, 1999}
Colors == {"Red"}

\* &Car{}: every field has its zero value.
ZeroCar == [Brand |-> "", Model |-> "", Year |-> 0, Color |-> "", Electric |-> FALSE]

BuilderInit ==
    /\ bref = NilRef
    /\ builder = ZeroCar
    /\ cur = NilRef
    /\ car = [built |-> FALSE, alias |-> FALSE, val |-> ZeroCar]
    /\ given = ZeroCar
    /\ snap = ZeroCar
    /\ lastWith = "none"

\* NewCarBuilder(): return &Car{}.
NewCarBuilder ==
    /\ bref = NilRef
    /\ bref' = bref + 1
    /\ cur' = bref + 1
    /\ builder' = ZeroCar
    /\ UNCHANGED <<car, given, snap, lastWith, notBuilder>>

\* c.WithBrand(name): c.Brand = name; return c.
WithBrand(name) ==
    /\ bref # NilRef
    /\ builder' = [builder EXCEPT !.Brand = name]
    /\ cur' = bref
    /\ given' = [given EXCEPT !.Brand = name]
    /\ lastWith' = "Brand"
    /\ UNCHANGED <<bref, car, snap, notBuilder>>

\* c.WithModel(model): c.Model = model; return c.
WithModel(model) ==
    /\ bref # NilRef
    /\ builder' = [builder EXCEPT !.Model = model]
    /\ cur' = bref
    /\ given' = [given EXCEPT !.Model = model]
    /\ lastWith' = "Model"
    /\ UNCHANGED <<bref, car, snap, notBuilder>>

\* A faulty variant of WithYear: the method has a value receiver, sets the
\* year of its copy and returns a pointer to the copy.
WithYearOnCopy(year) ==
    /\ bref # NilRef
    /\ cur' = bref + 1
    /\ given' = [given EXCEPT !.Year = year]
    /\ lastWith' = "Year"
    /\ UNCHANGED <<bref, builder, car, snap, notBuilder>>

\* c.WithYear(year): c.Year = year; return c.
WithYear(year) ==
    /\ bref # NilRef
    /\ builder' = [builder EXCEPT !.Year = year]
    /\ cur' = bref
    /\ given' = [given EXCEPT !.Year = year]
    /\ lastWith' = "Year"
    /\ UNCHANGED <<bref, car, snap, notBuilder>>

\* c.WithColor(color): c.Color = color; return c.
WithColor(color) ==
    /\ bref # NilRef
    /\ builder' = [builder EXCEPT !.Color = color]
    /\ cur' = bref
    /\ given' = [given EXCEPT !.Color = color]
    /\ lastWith' = "Color"
    /\ UNCHANGED <<bref, car, snap, notBuilder>>

\* c.WithElectric(electric): c.Electric = electric; return c.
WithElectric(electric) ==
    /\ bref # NilRef
    /\ builder' = [builder EXCEPT !.Electric = electric]
    /\ cur' = bref
    /\ given' = [given EXCEPT !.Electric = electric]
    /\ lastWith' = "Electric"
    /\ UNCHANGED <<bref, car, snap, notBuilder>>

\* A faulty variant of Build: it returns the pointer c, so that the result
\* is the builder itself.
BuildPointer ==
    /\ bref # NilRef
    /\ car' = [built |-> TRUE, alias |-> TRUE, val |-> builder]
    /\ snap' = builder
    /\ UNCHANGED <<bref, builder, cur, given, lastWith, notBuilder>>

\* c.Build(): return *c, a copy of the fields.
Build ==
    /\ bref # NilRef
    /\ car' = [built |-> TRUE, alias |-> FALSE, val |-> builder]
    /\ snap' = builder
    /\ UNCHANGED <<bref, builder, cur, given, lastWith, notBuilder>>

\* The fields read through what Build returned: its own when it is a Car
\* value, the builder's when it is the builder.
CarValue == IF car.alias THEN builder ELSE car.val

(***************************************************************************)
(* Generics: Min, Max over Ordered                                         *)
(***************************************************************************)

\* Bound: the int arguments are -MaxInt .. MaxInt, and 7.
MaxInt == 3

\* Values of two types of Ordered. A string is the sequence of its bytes:
\* "", "g", "go", "generic", "gopher".
IntValues == {[kind |-> "int", v |-> n] : n \in (-MaxInt..MaxInt) \cup {7}}
StringValues ==
    {[kind |-> "string", v |-> s] :
        s \in {<<>>, <<103>>, <<103, 111>>,
               <<103, 101, 110, 101, 114, 105, 99>>,
               <<103, 111, 112, 104, 101, 114>>}}

\* The pairs (a, b) of one type T.
OrderedPairs == (IntValues \X IntValues) \cup (StringValues \X StringValues)

\* s < t on strings: the order of the first byte that differs; a proper
\* prefix is smaller.
RECURSIVE LessBytes(_, _)
LessBytes(s, t) ==
    IF t = <<>> THEN FALSE
    ELSE IF s = <<>> THEN TRUE
    ELSE IF Head(s) # Head(t) THEN Head(s) < Head(t)
    ELSE LessBytes(Tail(s), Tail(t))

\* a < b on T.
Less(a, b) == IF a.kind = "int" THEN a.v < b.v ELSE LessBytes(a.v, b.v)

\* A faulty variant of Min: the test is a > b.
MinSwapped(a, b) == IF Less(b, a) THEN a ELSE b

\* Min: if a < b { return a }; return b.
Min(a, b) == IF Less(a, b) THEN a ELSE b

\* Max: if a > b { return a }; return b.
Max(a, b) == IF Less(b, a) THEN a ELSE b

GenericInit ==
    gres = [op |-> "none", a |-> [kind |-> "int", v |-> 0],
            b |-> [kind |-> "int", v |-> 0], ret |-> [kind |-> "int", v |-> 0]]

\* A call Min(a, b).
CallMin(a, b) ==
    /\ gres' = [op |-> "Min", a |-> a, b |-> b, ret |-> Min(a, b)]
    /\ UNCHANGED notGeneric

\* A call Max(a, b).
CallMax(a, b) ==
    /\ gres' = [op |-> "Max", a |-> a, b |-> b, ret |-> Max(a, b)]
    /\ UNCHANGED notGeneric

(***************************************************************************)
(* Specifications                                                          *)
(***************************************************************************)

Init ==
    /\ FactoryInit
    /\ SingletonInit
    /\ ObjectInit
    /\ CommandInit
    /\ ObserverInit
    /\ StrategyInit
    /\ DecoratorInit
    /\ BuilderInit
    /\ GenericInit

FactoryNext ==
    \/ \E k \in ProviderKeys : CallNewPaymentProcessor(k)
    \/ \E k \in ProviderKeys : CallFactoryNewPaymentProcessor(k)
    \/ \E k \in NotifierKinds : CallNewNotifer(k)
    \/ \E m \in Messages : CallSend(m)
    \/ \E env \in ProviderKeys : FactoryMain(env)

FactorySpec == Init /\ [][FactoryNext]_vars

SingletonNext ==
    \/ \E p \in Procs : GetCounter(p)
    \/ \E p \in Procs : Run(p)

SingletonSpec == Init /\ [][SingletonNext]_vars

ObjectNext ==
    \/ \E p \in Users : GetCounter(p)
    \/ \E p \in Users : Run(p)
    \/ \E p \in Users, name \in AppNames : SetAppName(p, name)
    \/ \E p \in Users : IncrementLoad(p)
    \/ \E p \in Users : IncrementStore(p)
    \/ \E p \in Users : IncrementReturn(p)

ObjectSpec == Init /\ [][ObjectNext]_vars

CommandNext ==
    \/ \E c \in Commands : SetCommand(c)
    \/ \E i \in PressIndexes : PressButton(i)
    \/ UndoLast

CommandSpec == Init /\ [][CommandNext]_vars

ObserverNext ==
    \/ \E t \in SubjectTypes : NewSubject(t)
    \/ \E o \in Observers : Register(o)
    \/ \E o \in Observers : Unregister(o)
    \/ \E e \in Payloads : Notify(e)

ObserverSpec == Init /\ [][ObserverNext]_vars

StrategyNext ==
    \/ \E i \in Instances : NewShoppingCart(i)
    \/ \E i \in Instances : NewShippingContext(i)
    \/ \E i \in Instances : NewGreetingContext(i)
    \/ \E i \in Instances, k \in ServiceProviders,
          s \in Strategies("PaymentService") \cup {Nil} :
            NewPaymentService(i, k, s)
    \/ \E i \in Instances :
          \E s \in UNION {Strategies(k) : k \in {"ShoppingCart", "ShippingContext",
                                                "GreetingContext"}} \cup {Nil} :
            AssignStrategy(i, s)
    \/ \E i \in Instances, s \in Strategies("PaymentService") \cup {Nil} :
          SetPricingStrategy(i, s)
    \/ \E i \in Instances, a \in Amounts : Checkout(i, a)
    \/ \E i \in Instances, it \in Items, d \in Distances : Ship(i, it, d)
    \/ \E i \in Instances : Greet(i)
    \/ \E i \in Instances, a \in Amounts : ProcessPayment(i, a)

StrategySpec == Init /\ [][StrategyNext]_vars

DecoratorNext ==
    \/ \E b \in Bases : NewComponent(b)
    \/ \E d \in UNION {Decorators(b.type) : b \in Bases} : Wrap(d)
    \/ \E d \in UNION {Decorators(b.type) : b \in Bases} : WrapOther(d)
    \/ \E n \in 0..MaxChain : CallCost(n)
    \/ \E n \in 0..MaxChain : CallIngredients(n)
    \/ \E n \in 0..MaxChain : CallDisplay(n)
    \/ \E n \in 0..MaxChain : CallGetDescription(n)
    \/ \E n \in 0..MaxChain : CallGetAnnualFee(n)
    \/ \E n \in 0..MaxChain : CallGetFeatures(n)

DecoratorSpec == Init /\ [][DecoratorNext]_vars

BuilderNext ==
    \/ NewCarBuilder
    \/ \E name \in Brands : WithBrand(name)
    \/ \E model \in Models : WithModel(model)
    \/ \E year \in Years : WithYear(year)
    \/ \E color \in Colors : WithColor(color)
    \/ \E electric \in BOOLEAN : WithElectric(electric)
    \/ Build

BuilderSpec == Init /\ [][BuilderNext]_vars

GenericNext ==
    \/ \E ab \in OrderedPairs : CallMin(ab[1], ab[2])
    \/ \E ab \in OrderedPairs : CallMax(ab[1], ab[2])

GenericSpec == Init /\ [][GenericNext]_vars

\* The Go scheduler runs every runnable goroutine eventually.
SingletonFairSpec == SingletonSpec /\ \A p \in Procs : WF_vars(Run(p))

(***************************************************************************)
(* Properties                                                              *)
(***************************************************************************)

\* The keys each factory enumerates.
DemoKeys == {"paypal", "stripe", "crypto"}
PackageKeys == {"paypal", "stripe"}

\* C1: every call of NewPaymentProcessor returns a non-nil processor and a
\* nil error exactly when the key is, compared exactly, one of the keys the
\* called factory enumerates, and then constructs that one processor; for
\* every other key ("" and "PayPal" included) it returns a nil processor and
\* a non-nil error whose message ends in the rejected key, and constructs
\* nothing.
C1_ExactKeysOrError ==
    [][(fcalls' = fcalls + 1) =>
        LET keys == IF fpkg' = "demo" THEN DemoKeys ELSE PackageKeys
            prefix == IF fpkg' = "demo" THEN "unsupported provider: "
                      ELSE "unsupported payment provider: "
        IN  /\ (fres'.proc # Nil /\ fres'.err.isnil) <=> (fkey' \in keys)
            /\ (fkey' \in keys) => fheap' = fheap + 1
            /\ (fkey' \notin keys) =>
                  /\ fres'.proc = Nil
                  /\ ~fres'.err.isnil
                  /\ fres'.err.msg = prefix \o fkey'
                  /\ fheap' = fheap]_vars

\* C1 witness: after a successful construction, the demo's factory rejected
\* "PayPal" and the package's factory rejected "crypto" or "".
C1_Witness ==
    /\ fheap >= 1
    /\ \/ fpkg = "demo" /\ fkey = "PayPal" /\ fres.proc = Nil /\ ~fres.err.isnil
       \/ fpkg = "factory" /\ fkey \in {"crypto", ""} /\ fres.proc = Nil

\* The values of parked[p] of a caller that was parked in Lock.
WasParked == {"check", "init", "store", "unlock"}

\* C2: in every interleaving of concurrent accessor calls the initializer
\* body runs at most once, at most one instance is ever constructed (exactly
\* one once a call has returned), and every reference returned to any
\* caller, first-time or later, is that same reference.
C2_OneInstanceForAll ==
    /\ initRuns <= 1
    /\ objects <= 1
    /\ \A p \in Procs : got[p] # {} => objects = 1
    /\ \A p, q \in Procs : \A r \in got[p] : \A s \in got[q] : r = s

\* C2 witness: goroutines raced on the first call (one was parked on the
\* mutex), a later call found the Once done, and all hold the one reference.
C2_Witness ==
    /\ \A p \in Procs : pc[p] = "idle" /\ got[p] = {1}
    /\ \E p \in Procs : parked[p] \in WasParked
    /\ \E p \in Procs : parked[p] = "fast"

\* C3: no accessor call returns before the initializer has completed: a
\* caller about to return finds done set, the instance assigned and no
\* initializer running, and no caller has ever received the nil reference.
C3_NoReturnBeforeInit ==
    /\ \A p \in Procs : NilRef \notin got[p]
    /\ \A p \in Procs :
          pc[p] = "return" =>
             /\ done = 1
             /\ instance # NilRef
             /\ \A q \in Procs : pc[q] \notin {"init", "store"}

\* C3 witness: a caller that arrived while another caller was running the
\* initializer has returned, with the instance.
C3_Witness ==
    \E p \in Procs :
        /\ parked[p] = "init"
        /\ pc[p] = "idle"
        /\ got[p] = {instance}
        /\ instance # NilRef

\* C4: under fair scheduling every accessor call in progress eventually
\* returns, and returns the shared instance.
C4_EveryCallReturns ==
    \A p \in Procs :
        (pc[p] # "idle") ~> (pc[p] = "idle" /\ last[p] = instance /\ instance # NilRef)

\* C4 witness: every caller but the initializing one was suspended on the
\* mutex, and all of them have been released and have returned the instance.
C4_Witness ==
    /\ Cardinality({p \in Procs : parked[p] \in WasParked}) = NumProcs - 1
    /\ \A p \in Procs : pc[p] = "idle" /\ last[p] = instance
    /\ instance # NilRef
    /\ mu = NoHolder

\* C5: a PressButton of a bound slot immediately followed by UndoLast leaves
\* every Light's isOn as it was before the press, and the history as it was
\* before the press.
C5_PressUndoRestores ==
    [][(/\ lastOp.op = "PressButton"
        /\ lastOp.calls # <<>>
        /\ lastOp'.op = "UndoLast") =>
            (isOn' = lastOp.pre.isOn /\ history' = lastOp.pre.history)]_vars

\* The receiver state after the invocations `calls`, made in order from s.
RECURSIVE AfterCalls(_, _)
AfterCalls(calls, s) ==
    IF calls = <<>> THEN s
    ELSE AfterCalls(Tail(calls),
                    IF Head(calls).method = "Execute"
                    THEN Execute(Head(calls).cmd, s)
                    ELSE Undo(Head(calls).cmd, s))

\* C6: the history is a stack of the pressed, not yet undone commands in
\* press order: a PressButton of a bound slot pushes the pressed command at
\* the end, an UndoLast on a non-empty history invokes Undo once, on the
\* last entry, and removes exactly that entry, and nothing else changes the
\* history.
C6_HistoryIsStack ==
    LET pre == lastOp.pre
        n == Len(pre.history)
    IN  /\ lastOp.op = "SetCommand" => history = pre.history
        /\ lastOp.op = "PressButton" =>
              IF 0 <= lastOp.index /\ lastOp.index < Len(pre.commands)
              THEN history = Append(pre.history, pre.commands[lastOp.index + 1])
              ELSE history = pre.history
        /\ (lastOp.op = "UndoLast" /\ n > 0) =>
              /\ lastOp.calls = <<Invocation("Undo", pre.history[n])>>
              /\ Len(history) = n - 1
              /\ \A i \in 1..(n - 1) : history[i] = pre.history[i]
              /\ isOn = Undo(pre.history[n], pre.isOn)

\* C6 witness: two different commands were pressed and UndoLast has undone
\* the second, leaving the first in the history.
C6_Witness ==
    /\ lastOp.op = "UndoLast"
    /\ Len(lastOp.pre.history) = 2
    /\ lastOp.pre.history[1] # lastOp.pre.history[2]
    /\ history = <<lastOp.pre.history[1]>>
    /\ lastOp.cmd = lastOp.pre.history[2]

\* C7: UndoLast on an empty history invokes no command, leaves the
\* receiver, the bound commands and the empty history unchanged and does
\* not fail.
C7_UndoOnEmptyIsNoop ==
    (lastOp.op = "UndoLast" /\ lastOp.pre.history = <<>>) =>
        /\ lastOp.calls = <<>>
        /\ isOn = lastOp.pre.isOn
        /\ commands = lastOp.pre.commands
        /\ history = <<>>
        /\ ~crashed

\* C7 witness: UndoLast ran on a history emptied by undoing every pressed
\* command (a Light is on although nothing is left to undo).
C7_Witness ==
    /\ lastOp.op = "UndoLast"
    /\ lastOp.pre.history = <<>>
    /\ lastOp.calls = <<>>
    /\ \E l \in Lights : isOn[l]
    /\ commands # <<>>

\* C8: the k-th SetCommand binds slot k-1 and leaves the slots bound before
\* as they were; PressButton of a bound slot invokes Execute of the command
\* bound to that slot, once, and appends that command to the history; the
\* receiver changes only by the effects of the invoked command methods.
C8_BindAndPress ==
    LET pre == lastOp.pre
    IN  /\ nset = Len(commands)
        /\ lastOp.op = "SetCommand" =>
              /\ Len(commands) = Len(pre.commands) + 1
              /\ commands[nset] = lastOp.cmd
              /\ \A i \in 1..Len(pre.commands) : commands[i] = pre.commands[i]
        /\ lastOp.op # "SetCommand" => commands = pre.commands
        /\ (lastOp.op = "PressButton" /\ 0 <= lastOp.index
                /\ lastOp.index < Len(pre.commands)) =>
              /\ lastOp.calls = <<Invocation("Execute", pre.commands[lastOp.index + 1])>>
              /\ history = Append(pre.history, pre.commands[lastOp.index + 1])
        /\ isOn = AfterCalls(lastOp.calls, pre.isOn)

\* C8 witness: with two different commands bound, the second slot was
\* pressed and its command executed.
C8_Witness ==
    /\ lastOp.op = "PressButton"
    /\ lastOp.index = 1
    /\ Len(commands) >= 2
    /\ commands[1] # commands[2]
    /\ lastOp.calls = <<Invocation("Execute", commands[2])>>
    /\ history[Len(history)] = commands[2]

\* The updates the last Notify delivered to observer o.
UpdatesTo(o) ==
    {i \in 1..Len(obsOp.delivered) : obsOp.delivered[i].obs = o}

\* C9 as stated: after Register(o) a Notify(e) delivers exactly one update,
\* with payload e, to o; after Unregister(o) a Notify delivers none to o.
C9_OneUpdateOrNone ==
    obsOp.op = "Notify" =>
        \A o \in Observers :
            /\ status[o] = "registered" =>
                  /\ Cardinality(UpdatesTo(o)) = 1
                  /\ \A i \in UpdatesTo(o) : obsOp.delivered[i].payload = obsOp.payload
            /\ status[o] = "unregistered" => UpdatesTo(o) = {}

\* C9 amended: a Notify(e) delivers to o one update with payload e for every
\* Register(o) not yet cancelled by an Unregister(o): exactly one when o is
\* registered once, none when every registration of o has been cancelled.
C9_OneUpdatePerRegistration ==
    obsOp.op = "Notify" =>
        \A o \in Observers :
            /\ Cardinality(UpdatesTo(o)) = active[o]
            /\ \A i \in UpdatesTo(o) : obsOp.delivered[i].payload = obsOp.payload

\* C9 witness: a Notify ran with one observer registered once, one
\* registered and unregistered, and it delivered one and zero updates.
C9_Witness ==
    /\ obsOp.op = "Notify"
    /\ \E o, u \in Observers :
          /\ status[o] = "registered" /\ active[o] = 1
          /\ Cardinality(UpdatesTo(o)) = 1
          /\ status[u] = "unregistered" /\ active[u] = 0
          /\ UpdatesTo(u) = {}
          /\ \E k \in 1..Len(obsOp.pre) : obsOp.pre[k].ticket > 1

\* The position of entry x in list.
PositionIn(list, x) == CHOOSE k \in 1..Len(list) : list[k] = x

\* C10: Notify(e) invokes the update of every entry of the list at the time
\* of the call, once per entry, with payload e, in list order, which is the
\* order of registration, and has made all deliveries when it returns;
\* Unregister leaves the remaining entries in their relative order.
C10_NotifyInRegistrationOrder ==
    /\ \A i, j \in 1..Len(subscribers) :
          i < j => subscribers[i].ticket < subscribers[j].ticket
    /\ obsOp.op = "Notify" =>
          /\ subscribers = obsOp.pre
          /\ Len(obsOp.delivered) = Len(obsOp.pre)
          /\ \A i \in 1..Len(obsOp.pre) :
                obsOp.delivered[i] = [obs |-> obsOp.pre[i].obs,
                                      ticket |-> obsOp.pre[i].ticket,
                                      payload |-> obsOp.payload]
    /\ obsOp.op = "Unregister" =>
          /\ \A i \in 1..Len(subscribers) :
                \E k \in 1..Len(obsOp.pre) : obsOp.pre[k] = subscribers[i]
          /\ \A i, j \in 1..Len(subscribers) :
                i < j => PositionIn(obsOp.pre, subscribers[i])
                            < PositionIn(obsOp.pre, subscribers[j])

\* C10 witness: after an entry that was not the last one has been removed,
\* a Notify delivered to the two or more remaining entries.
C10_Witness ==
    /\ obsOp.op = "Notify"
    /\ Len(obsOp.delivered) >= 2
    /\ obsOp.delivered[1].ticket > 1
    /\ obsOp.delivered[1].obs # obsOp.delivered[2].obs

\* The entries of list that hold observer o.
EntriesOf(list, o) == {i \in 1..Len(list) : list[i].obs = o}

\* C11: Register appends one entry for the given observer at the end of the
\* list, whether or not the observer is in it already, and leaves the
\* entries before it as they were; an observer registered k times (and not
\* unregistered) has k entries, and a Notify delivers k updates to it.
C11_RegisterAppendsDuplicates ==
    /\ obsOp.op = "Register" =>
          /\ Len(subscribers) = Len(obsOp.pre) + 1
          /\ subscribers[Len(subscribers)].obs = obsOp.obs
          /\ \A i \in 1..Len(obsOp.pre) : subscribers[i] = obsOp.pre[i]
          /\ Cardinality(EntriesOf(subscribers, obsOp.obs))
                = Cardinality(EntriesOf(obsOp.pre, obsOp.obs)) + 1
    /\ \A o \in Observers :
          Cardinality(EntriesOf(subscribers, o)) = active[o]
    /\ obsOp.op = "Notify" =>
          \A o \in Observers :
              Cardinality(UpdatesTo(o)) = Cardinality(EntriesOf(obsOp.pre, o))

\* C11 witness: an observer was registered three times, and a Notify
\* delivered three updates to it.
C11_Witness ==
    /\ obsOp.op = "Notify"
    /\ \E o \in Observers :
          /\ active[o] = 3
          /\ Cardinality(UpdatesTo(o)) = 3
          /\ Len(subscribers) = nregs

\* C12: Unregister(o) removes the first entry equal to o and nothing else:
\* the entries before it and the entries after it, later duplicates of o
\* included, stay in their order; when no entry equals o, on an empty list
\* too, the list is left as it was.
C12_UnregisterRemovesFirstMatch ==
    obsOp.op = "Unregister" =>
        LET pre == obsOp.pre
            hits == EntriesOf(pre, obsOp.obs)
        IN  IF hits = {}
            THEN subscribers = pre
            ELSE LET first == CHOOSE i \in hits : \A j \in hits : i <= j
                 IN  /\ Len(subscribers) = Len(pre) - 1
                     /\ \A j \in 1..(first - 1) : subscribers[j] = pre[j]
                     /\ \A j \in first..(Len(pre) - 1) : subscribers[j] = pre[j + 1]

\* C12 witness: Unregister ran on a list that held the observer twice with
\* another observer's entry behind the first; the later duplicate stayed.
C12_Witness ==
    /\ obsOp.op = "Unregister"
    /\ Cardinality(EntriesOf(obsOp.pre, obsOp.obs)) = 2
    /\ Cardinality(EntriesOf(subscribers, obsOp.obs)) = 1
    /\ Len(subscribers) >= 2
    /\ subscribers[1].obs # obsOp.obs
    /\ obsOp.pre[1].obs = obsOp.obs

\* C19: every registry answers a key outside its enumeration with an
\* explicit failure: NewPaymentProcessor with a nil processor and a non-nil
\* error, NewNotifer with a reported error, never with a default variant or
\* a bare nil.
C19_UnknownKeyFailsExplicitly ==
    /\ (fpkg = "demo" /\ fkey \notin DemoKeys) =>
          (fres.proc = Nil /\ ~fres.err.isnil)
    /\ (fpkg = "factory" /\ fkey \notin PackageKeys) =>
          (fres.proc = Nil /\ ~fres.err.isnil)
    /\ (nres.called /\ nkey \notin {"email", "sms"}) =>
          (nres.notifier = Nil /\ ~nres.err.isnil)

\* C20: when PAYMENT_PROVIDER is absent or holds an unrecognized value,
\* main of package factory ends with the unsupported-provider failure: it
\* does not panic and it pays with no processor.
C20_MainSurfacesUnsupportedProvider ==
    (mainExit # "notrun" /\ mainEnv \notin PackageKeys) =>
        (mainExit = "unsupported" /\ ~fres.err.isnil)

\* Execute call e shows the behaviour of strategy s: Checkout prints the
\* line of s.Pay, ProcessPayment charges the price s calculates.
Uses(e, s) ==
    /\ e.op = "Checkout" => e.out = <<Pay(s, e.args[1])>>
    /\ e.op = "ProcessPayment" =>
          /\ e.out[1] = <<"Original, Final", e.args[1], CalculatePrice(s, e.args[1])>>
          /\ e.out[2][2] = CalculatePrice(s, e.args[1])

\* C13: an execute call (Checkout, ProcessPayment) on a context whose
\* strategy was last set to B shows B's behaviour and not that of the
\* strategy A that B replaced, and a replacement changes nothing of the
\* execute call made before it.
C13_ReplacementTakesEffect ==
    [][/\ (/\ lastExec' # lastExec
           /\ lastExec'.op \in {"Checkout", "ProcessPayment"}
           /\ lastSet[lastExec'.inst].cur # Nil) =>
              /\ ~lastExec'.panicked
              /\ Uses(lastExec', lastSet[lastExec'.inst].cur)
              /\ lastSet[lastExec'.inst].prev \notin
                     {Nil, lastSet[lastExec'.inst].cur} =>
                   ~Uses(lastExec', lastSet[lastExec'.inst].prev)
       /\ lastSet' # lastSet => lastExec' = lastExec]_vars

C13_Witness ==
    /\ lastExec.op = "ProcessPayment"
    /\ ~lastExec.panicked
    /\ lastSet[lastExec.inst].prev \notin {Nil, lastSet[lastExec.inst].cur}
    /\ lastSet[lastExec.inst].cur # Nil
    /\ Uses(lastExec, lastSet[lastExec.inst].cur)
    /\ \E j \in Instances : j # lastExec.inst /\ ctx[j].kind = "PaymentService"

\* The invocations of the strategy made by execute call e.
StrategyCalls(e) == SelectSeq(e.calls, LAMBDA c : c.role = "strategy")

\* C14: every execute call (Checkout, Ship, Greet, ProcessPayment) on a
\* context that holds a strategy invokes that strategy's operation exactly
\* once, with the caller's arguments.
C14_ExecuteDelegatesOnce ==
    (lastExec.op # "none" /\ lastExec.held # Nil) =>
        /\ Len(StrategyCalls(lastExec)) = 1
        /\ StrategyCalls(lastExec)[1].on = lastExec.held
        /\ StrategyCalls(lastExec)[1].args = lastExec.args

\* C15: every constructed strategy context holds a non-empty strategy, so
\* that no execute call runs on an empty strategy slot.
C15_AlwaysHoldsStrategy ==
    /\ \A i \in Instances : ctx[i].kind # "none" => ctx[i].strategy # Nil
    /\ ~scrashed

\* The number of decorators of type d in chain c.
CountOf(d, c) == Cardinality({k \in 1..Len(c) : c[k] = d})

\* The text that starts with acc and lists the names ds in order.
RECURSIVE Listed(_, _)
Listed(acc, ds) ==
    IF ds = <<>> THEN acc ELSE Listed(acc \o ", " \o Head(ds), Tail(ds))

\* C16: on every chain of Milk and Sugar around SimpleCoffee, Cost() is 5
\* plus 2 per Milk plus 1 per Sugar and Ingredients() is "Coffee" followed
\* by the decorators in the order applied; GetDescription() of a sandwich
\* chain is "Bread" followed by its decorators in the order applied.
C16_ChainClosedForm ==
    /\ dbase.type = "Coffee" =>
          /\ Cost(chain).val = 5 + 2 * CountOf("Milk", chain) + CountOf("Sugar", chain)
          /\ Ingredients(chain).val = Listed("Coffee", chain)
    /\ dres.op = "Cost" =>
          dres.num = 5 + 2 * CountOf("Milk", Component(dres.on))
                       + CountOf("Sugar", Component(dres.on))
    /\ dres.op = "Ingredients" => dres.str = Listed("Coffee", Component(dres.on))
    /\ dres.op = "GetDescription" => dres.str = Listed("Bread", Component(dres.on))

C16_Witness ==
    /\ chain = <<"Milk", "Sugar">>
    /\ dres.op = "Ingredients"
    /\ dres.on = 2
    /\ dres.str = "Coffee, Milk, Sugar"
    /\ Cost(chain).val = 8

\* C17: a call on a chain runs the method of every level once, from the
\* level called down to the base: every decorator delegates to its inner
\* component exactly once.
C17_EveryDecoratorDelegates ==
    dres.op # "none" =>
        /\ Len(dres.visits) = dres.on + 1
        /\ \A k \in 1..Len(dres.visits) : dres.visits[k] = dres.on + 1 - k

\* C18: the basic card has fee 0 and features "Basic Payment", and every
\* Rewards around it adds 50 to the fee and appends ", Cashback Rewards" to
\* the features of the card it wraps.
C18_CardFeesAndFeatures ==
    (dbase.type = "PaymentCard" /\ CountOf("CardDecorator", Component(dres.on)) = 0) =>
        /\ dres.op = "GetAnnualFee" =>
              dres.num = 50 * CountOf("Rewards", Component(dres.on))
        /\ dres.op = "GetFeatures" =>
              dres.str = Listed("Basic Payment",
                                [k \in 1..dres.on |-> "Cashback Rewards"])

\* C21: a NewPaymentService call with an unknown provider returns a nil
\* service and exactly the error of NewPaymentProcessor, after one factory
\* call, without a panic and without building a service; with a known
\* provider it returns a service that holds the resolved processor and the
\* given strategy, and a nil error.
C21_ServiceErrorPropagates ==
    [][newRes' # newRes =>
          /\ newRes'.lookups = 1
          /\ ~scrashed'
          /\ newRes'.provider \notin DemoKeys =>
                /\ newRes'.service = Nil
                /\ ~newRes'.err.isnil
                /\ newRes'.err = NewPaymentProcessor(newRes'.provider).err
                /\ ctx' = ctx
          /\ newRes'.provider \in DemoKeys =>
                /\ newRes'.service \in Instances
                /\ newRes'.err = NilError
                /\ ctx[newRes'.service] = NotBuilt
                /\ ctx' = [ctx EXCEPT ![newRes'.service] =
                              [kind |-> "PaymentService",
                               strategy |-> newRes'.given,
                               processor |->
                                   NewPaymentProcessor(newRes'.provider).proc]]]_vars

C21_Witness ==
    /\ newRes.called
    /\ newRes.provider = "Stripe"
    /\ newRes.service = Nil
    /\ newRes.err = Errorf("unsupported provider: ", "Stripe")
    /\ \E i \in Instances : ctx[i].kind = "PaymentService"
    /\ \E i \in Instances : ctx[i] = NotBuilt

\* C22: NewNotifer maps "email" to an EmailNotifier and "sms" to an
\* SMSNotifier, and Send(m) on them returns "Email sent: " followed by m,
\* respectively "SMS sent: " followed by m.
C22_NotifierSendsMessage ==
    /\ (nres.called /\ nkey = "email") => nres.notifier = "EmailNotifier"
    /\ (nres.called /\ nkey = "sms") => nres.notifier = "SMSNotifier"
    /\ (sent.called /\ sent.on = "EmailNotifier") =>
          sent.ret = "Email sent: " \o sent.msg
    /\ (sent.called /\ sent.on = "SMSNotifier") =>
          sent.ret = "SMS sent: " \o sent.msg

\* The references the goroutines were given by the accessor.
HeldRefs == UNION {got[p] : p \in Procs}

\* The number of Increment calls whose write has been made.
Written == Len(rets) + Cardinality({q \in Procs : ipc[q] = "ret"})

\* C23: all references returned by the accessor denote one object, and as
\* long as no two mutations overlap, the name set by the last SetAppName
\* and the count of the Increment calls made so far are read through every
\* reference, whoever made the change and whenever the reference was got.
C23_ChangesSeenThroughEveryReference ==
    /\ \A r \in HeldRefs, s \in HeldRefs : r = s
    /\ ~overlapped =>
          \A r \in HeldRefs :
              /\ r # NilRef
              /\ heap[r].appName = lastName
              /\ heap[r].value = Written

C23_Witness ==
    /\ ~overlapped
    /\ got[1] # {}
    /\ got[2] # {}
    /\ rets = <<1, 2>>
    /\ lastName = "Other"
    /\ \A r \in HeldRefs : heap[r] = [value |-> 2, appName |-> "Other"]

\* C27: when no Increment call is in progress the counter equals the number
\* of completed Increment calls, and the completed calls returned distinct
\* values, the k-th completed call k, also when goroutines call Increment
\* concurrently.
C27_NoLostUpdate ==
    /\ (instance # NilRef /\ \A q \in Procs : ipc[q] = "idle") =>
          heap[instance].value = Len(rets)
    /\ \A j \in 1..Len(rets), k \in 1..Len(rets) : j # k => rets[j] # rets[k]

\* C24: every call of the chain returns the builder NewCarBuilder made,
\* and the Car that Build returns has, for every field, the value passed to
\* the last With call of that field, and the zero value when there was
\* none, whatever the order of the calls.
C24_BuildGivesLastValues ==
    [][/\ bref' # NilRef => cur' = bref'
       /\ car' # car => (car'.built /\ CarValue' = given)]_vars

C24_Witness ==
    /\ car.built
    /\ car.val = [Brand |-> "Tesla", Model |-> "Mustang", Year |-> 0,
                  Color |-> "Red", Electric |-> TRUE]
    /\ given = car.val
    /\ lastWith = "Brand"
    /\ cur = bref

\* C29: the Car returned by Build keeps the fields the builder had at that
\* moment whatever With calls follow, and a With call changes no field of
\* the builder other than its own.
C29_BuiltCarIsSnapshot ==
    [][/\ car'.built => CarValue' = snap'
       /\ \A f \in Fields : builder'[f] # builder[f] => f = lastWith']_vars

C29_Witness ==
    /\ car.built
    /\ car.val = snap
    /\ car.val.Brand = "Ford"
    /\ car.val.Year = 2024
    /\ builder.Brand = "Tesla"
    /\ builder.Year = 1999
    /\ builder.Color = car.val.Color

\* C26: PressButton(index) with index below 0, or not below the number of
\* commands set, invokes no command, leaves the receiver, the bound
\* commands and the history unchanged and does not fail.
C26_PressUnboundSlotIsNoop ==
    (/\ lastOp.op = "PressButton"
     /\ (lastOp.index < 0 \/ lastOp.index >= Len(lastOp.pre.commands))) =>
        /\ lastOp.calls = <<>>
        /\ isOn = lastOp.pre.isOn
        /\ commands = lastOp.pre.commands
        /\ history = lastOp.pre.history
        /\ ~crashed

\* C25: Min(a, b) is one of a, b and not greater than either, Max(a, b) is
\* one of a, b and not less than either, the two together are the pair
\* {a, b}, and both are symmetric in their arguments; Min(3, 7) = 3 and
\* Min("go", "generic") = "generic".
C25_MinMaxOfPair ==
    /\ gres.op = "Min" =>
          /\ gres.ret \in {gres.a, gres.b}
          /\ ~Less(gres.a, gres.ret)
          /\ ~Less(gres.b, gres.ret)
          /\ {gres.ret, Max(gres.a, gres.b)} = {gres.a, gres.b}
          /\ gres.ret = Min(gres.b, gres.a)
    /\ gres.op = "Max" =>
          /\ gres.ret \in {gres.a, gres.b}
          /\ ~Less(gres.ret, gres.a)
          /\ ~Less(gres.ret, gres.b)
          /\ {gres.ret, Min(gres.a, gres.b)} = {gres.a, gres.b}
          /\ gres.ret = Max(gres.b, gres.a)
    /\ (gres.op = "Min" /\ gres.a.kind = "int" /\ gres.a.v = 3 /\ gres.b.v = 7) =>
          gres.ret.v = 3
    /\ (gres.op = "Min" /\ gres.a.kind = "string" /\ gres.a.v = <<103, 111>>
          /\ gres.b.v = <<103, 101, 110, 101, 114, 105, 99>>) =>
             gres.ret.v = <<103, 101, 110, 101, 114, 105, 99>>

C25_Witness ==
    /\ gres.op = "Min"
    /\ gres.a.kind = "string"
    /\ gres.a.v = <<103, 111>>
    /\ gres.b.v = <<103, 101, 110, 101, 114, 105, 99>>
    /\ gres.ret = gres.b

\* What the operations of the capability return on component c.
ResultsOf(c) ==
    CASE dbase.type = "Coffee" -> <<Cost(c).val, Ingredients(c).val>>
      [] dbase.type = "Text" -> <<Display(dbase.content, c).val>>
      [] dbase.type = "Sandwich" -> <<GetDescription(c).val>>
      [] dbase.type = "PaymentCard" -> <<GetAnnualFee(c).val, GetFeatures(c).val>>

\* What they return on the component n levels up in the first chain, and
\* in the second.
ResultsAt(n) == ResultsOf(SubSeq(chain, 1, n))
OtherResultsAt(n) == ResultsOf(SubSeq(other, 1, n))

C30_SetPricingStrategyFrame ==
    [][/\ \A i \in Instances :
             ctx[i].kind = "PaymentService" =>
                /\ ctx'[i].kind = "PaymentService"
                /\ ctx'[i].processor = ctx[i].processor
                /\ ctx'[i].strategy # ctx[i].strategy =>
                      /\ ctx'[i].strategy = lastSet'[i].cur
                      /\ \A j \in Instances \ {i} : ctx'[j] = ctx[j]
       /\ (/\ lastExec' # lastExec
           /\ lastExec'.op = "ProcessPayment"
           /\ ~lastExec'.panicked) =>
              /\ lastExec'.held = ctx[lastExec'.inst].strategy
              /\ lastExec'.calls =
                    <<Call("strategy", ctx[lastExec'.inst].strategy,
                           "CalculatePrice", lastExec'.args),
                      Call("processor", ctx[lastExec'.inst].processor,
                           "ProcessPayment",
                           <<CalculatePrice(ctx[lastExec'.inst].strategy,
                                            lastExec'.args[1])>>)>>
              /\ lastExec'.ret =
                    ProcessorPayment(ctx[lastExec'.inst].processor,
                                     CalculatePrice(ctx[lastExec'.inst].strategy,
                                                    lastExec'.args[1])).err
              /\ ctx' = ctx]_vars

C30_Witness ==
    /\ ctx["c1"].kind = "PaymentService"
    /\ ctx["c2"].kind = "PaymentService"
    /\ ctx["c1"].processor = "PayPalProcessor"
    /\ ctx["c2"].processor = "StripeProcessor"
    /\ lastSet["c1"] = [cur |-> "PremiumPricing", prev |-> "StandardPricing"]
    /\ lastSet["c2"] = [cur |-> "DiscountPricing", prev |-> Nil]
    /\ ctx["c2"].strategy = "DiscountPricing"
    /\ lastExec.inst = "c1"
    /\ lastExec.op = "ProcessPayment"
    /\ lastExec.args = <<10000>>
    /\ lastExec.calls[2].args = <<10500>>

====
